---------------------------- MODULE Spec2Model ----------------------------
(***************************************************************************)
(* Model of the real-time voice call session engine of src/app.py:         *)
(* VoiceCallHandler (load_context, process_speech, get_gemini_response,    *)
(* handle_action, save_call_log) driven by the receive loop of             *)
(* twilio_stream, over the data store of services/cockroachdb_service.py   *)
(* and the notification service of services/sms_service.py.                *)
(*                                                                         *)
(* Text is a sequence of atoms.  An atom is a one-character string, or a   *)
(* macro atom "#.." that stands for a longer piece of text whose           *)
(* properties (which markers it contains, what json.loads makes of it)     *)
(* are tabulated in Macro.                                                 *)
(***************************************************************************)
EXTENDS Integers, Sequences, FiniteSets, TLC

(***************************************************************************)
(* Bounds of the model.                                                    *)
(***************************************************************************)
MaxTurns == 2        \* media events delegated to process_speech per connection
LiveTurns == 1       \* the same, in the specification with fairness
RaceTurns == 1       \* the same, in the specification of two concurrent calls
MaxPairs == 6        \* turns that a call in progress has already completed

(***************************************************************************)
(* Program constants.                                                      *)
(***************************************************************************)
MinTranscriptLen == 2     \* len(user_text.strip()) < 2 aborts the turn
SummaryFallbackLen == 200 \* ai_summary = full_transcript[:200]
HistoryLimit == 10        \* self.conversation_history[-10:]

(***************************************************************************)
(* Text: atoms, macro atoms and the string operations the code uses.       *)
(***************************************************************************)
Absent == "<absent>"      \* a key that the JSON object does not have

NoDirective ==
  [action |-> Absent, customer_name |-> Absent, customer_phone |-> Absent,
   booking_date |-> Absent, booking_time |-> Absent,
   old_time |-> Absent, new_time |-> Absent]

CreateDirective(name, phone, date, time) ==
  [NoDirective EXCEPT !.action = "create_booking", !.customer_name = name,
     !.customer_phone = phone, !.booking_date = date, !.booking_time = time]

EditDirective(name, old, new) ==
  [NoDirective EXCEPT !.action = "edit_booking", !.customer_name = name,
     !.old_time = old, !.new_time = new]

\* What each macro atom stands for:
\*   brace  : the text contains  {"action"
\*   colon  : the text contains  "action":
\*   create : the text contains  create_booking
\*   valid  : the text alone is a JSON object (json.loads succeeds on it)
\*   obj    : that object
\*   len    : a lower bound of its length in characters
Macro(a) ==
  CASE a = "#CB"  -> [brace |-> TRUE, colon |-> TRUE, create |-> TRUE, valid |-> TRUE,
                      obj |-> CreateDirective("Ann", Absent, "today", "T1"), len |-> 40]
    [] a = "#CBP" -> [brace |-> TRUE, colon |-> TRUE, create |-> TRUE, valid |-> TRUE,
                      obj |-> CreateDirective("Ann", "P2", "today", "T3"), len |-> 40]
    [] a = "#EB"  -> [brace |-> TRUE, colon |-> TRUE, create |-> FALSE, valid |-> TRUE,
                      obj |-> EditDirective("Ann", "T1", "T2"), len |-> 40]
       \* {"action": "create_booking", "customer_name":     (cut short)
    [] a = "#BAD" -> [brace |-> TRUE, colon |-> TRUE, create |-> TRUE, valid |-> FALSE,
                      obj |-> NoDirective, len |-> 20]
       \* { "action": "create_booking", ...}   (a space after the brace)
    [] a = "#SP"  -> [brace |-> FALSE, colon |-> TRUE, create |-> TRUE, valid |-> TRUE,
                      obj |-> CreateDirective("Ann", Absent, "today", "T1"), len |-> 40]
    [] OTHER      -> [brace |-> FALSE, colon |-> FALSE, create |-> FALSE, valid |-> FALSE,
                      obj |-> NoDirective, len |-> 1]

MacroAtoms == {"#CB", "#CBP", "#EB", "#BAD", "#SP"}

IsMacro(a) == a \in MacroAtoms

IsSpace(a) == a \in {" ", "\n"}

RECURSIVE CharLen(_)
\* len(text)
CharLen(t) == IF t = <<>> THEN 0 ELSE Macro(Head(t)).len + CharLen(Tail(t))

RECURSIVE LStrip(_)
LStrip(t) == IF t /= <<>> /\ IsSpace(Head(t)) THEN LStrip(Tail(t)) ELSE t

RECURSIVE RStrip(_)
RStrip(t) ==
  IF t /= <<>> /\ IsSpace(t[Len(t)]) THEN RStrip(SubSeq(t, 1, Len(t) - 1)) ELSE t

\* str.strip()
Strip(t) == RStrip(LStrip(t))

\* text[:n]
Take(t, n) == SubSeq(t, 1, IF Len(t) < n THEN Len(t) ELSE n)

\* str.lower(), one character at a time
LowerChar(c) ==
  CASE c = "L" -> "l" [] c = "E" -> "e" [] c = "A" -> "a" [] c = "K" -> "k"
    [] c = "O" -> "o" [] c = "G" -> "g" [] c = "S" -> "s" [] OTHER -> c

Lower(t) == [i \in 1..Len(t) |-> LowerChar(t[i])]

\* needle in text, for a needle of plain characters
Contains(t, needle) ==
  \E i \in 1..(Len(t) - Len(needle) + 1) : SubSeq(t, i, i + Len(needle) - 1) = needle

\* '"action":' in text
HasActionMarker(t) == \E i \in 1..Len(t) : Macro(t[i]).colon

\* text.find('{"action"'), 1-based; 0 stands for Python's -1
FindBrace(t) ==
  IF \E i \in 1..Len(t) : Macro(t[i]).brace
  THEN CHOOSE i \in 1..Len(t) :
         Macro(t[i]).brace /\ \A j \in 1..(i - 1) : ~Macro(t[j]).brace
  ELSE 0

\* text.split('{"action"')[0]
BeforeBrace(t) == IF FindBrace(t) = 0 THEN t ELSE SubSeq(t, 1, FindBrace(t) - 1)

\* "create_booking" in text
HasCreateBooking(t) == \E i \in 1..Len(t) : Macro(t[i]).create


\* response_text[json_start:], with Python's slice from -1 (the last character)
\* when find() found nothing
JsonStr(t) ==
  IF FindBrace(t) = 0
  THEN IF t = <<>> THEN <<>>
       ELSE IF IsMacro(t[Len(t)]) THEN <<"}">> ELSE <<t[Len(t)]>>
  ELSE SubSeq(t, FindBrace(t), Len(t))

\* json.loads(json_str) followed by action_data.get: succeeds exactly when the
\* text is one JSON object, surrounding whitespace allowed
JsonLoads(t) ==
  LET s == Strip(t)
  IN  IF Len(s) = 1 /\ Macro(s[1]).valid
      THEN [ok |-> TRUE, obj |-> Macro(s[1]).obj]
      ELSE [ok |-> FALSE, obj |-> NoDirective]

\* dict.get(key, default)
Get(obj, key, default) == IF obj[key] = Absent THEN default ELSE obj[key]

Apology == <<"s", "o", "r", "r", "y">>

Greeting == <<"h", "e", "l", "l", "o">>

emergency_keywords ==
  { <<"e", "m", "e", "r", "g", "e", "n", "c", "y">>,
    <<"b", "u", "r", "s", "t">>,
    <<"l", "e", "a", "k">>,
    <<"f", "l", "o", "o", "d", "i", "n", "g">>,
    <<"s", "p", "a", "r", "k", "s">>,
    <<"g", "a", "s", " ", "l", "e", "a", "k">> }

\* Faulty variant: the keywords are looked for in the transcript as it is
IsEmergencyCaseSensitive(full) == \E kw \in emergency_keywords : Contains(full, kw)

\* any(kw in full_transcript.lower() for kw in emergency_keywords)
IsEmergency(full) == \E kw \in emergency_keywords : Contains(Lower(full), kw)

RoleText(role) ==
  IF role = "user" THEN <<"u", "s", "e", "r">>
  ELSE <<"a", "s", "s", "i", "s", "t", "a", "n", "t">>

RECURSIVE FullTranscript(_)
\* "\n".join(f"{m['role']}: {m['content']}" for m in self.transcript)
FullTranscript(tr) ==
  IF tr = <<>> THEN <<>>
  ELSE LET line == RoleText(tr[1].role) \o <<":", " ">> \o tr[1].content
       IN  IF Len(tr) = 1 THEN line
           ELSE line \o <<"\n">> \o FullTranscript(Tail(tr))

(***************************************************************************)
(* Inputs of the model: what the transport, the speech-recognition         *)
(* service and the completion service may deliver.                         *)
(***************************************************************************)
Conns == {"c1", "c2"}                \* transport connections (one call each)

Callers == {"O1", "P1"}              \* From: the owner of B1, a customer

Lines == {"L1", "L2"}                \* To: the line of B1, a line of no active business

NoResult == <<"#none">>              \* response.results is empty

UserTexts ==
  { <<>>,                            \* an empty transcript
    <<" ", "a", " ">>,               \* one character once trimmed
    <<"o", "k">>,
    <<"G", "A", "S", " ", "L", "E", "A", "K">> }

Responses ==
  { <<"o", "k">>,
    <<"o", "k", " ", "#CB">>,        \* directive last
    <<"#CBP", "\n">>,                \* directive alone, then a newline
    <<"#CB", " ", "o", "k">>,        \* directive followed by a sentence
    <<"o", "k", " ", "#EB">>,
    <<"o", "k", " ", "#BAD">>,
    <<" ", "#SP">> }

(***************************************************************************)
(* The data store.  A table is the sequence of its rows in insertion       *)
(* order; a row's id is its position; id 0 stands for None.                *)
(***************************************************************************)
NoOwner ==
  [id |-> "none", phone_number |-> "none", twilio_phone_number |-> "none",
   status |-> "none"]

business_owners ==
  { [id |-> "B1", phone_number |-> "O1", twilio_phone_number |-> "L1",
     status |-> "active"],
    [id |-> "B2", phone_number |-> "O2", twilio_phone_number |-> "L2",
     status |-> "inactive"] }

CustomerRow(b, phone, name, calls) ==
  [business_owner_id |-> b, phone_number |-> phone, name |-> name,
   total_calls |-> calls]

BookingRow(b, cid, name, phone, date, time, status) ==
  [business_owner_id |-> b, customer_id |-> cid, customer_name |-> name,
   customer_phone |-> phone, booking_date |-> date, booking_time |-> time,
   status |-> status]

\* SELECT ... WHERE k1 = v1 AND ... : the ids of the rows that match
Matching(table, where) ==
  { i \in 1..Len(table) : \A k \in DOMAIN where : table[i][k] = where[k] }

\* DB.find_one: LIMIT 1 without ORDER BY returns any one matching row, or None
FindOne(table, where) ==
  IF Matching(table, where) = {} THEN {0} ELSE Matching(table, where)

\* Faulty variant: the table has no UNIQUE constraint
NoUniqueConstraint(table, row) == FALSE

\* UNIQUE(business_owner_id, phone_number) of their_customers
ViolatesUnique(table, row) ==
  \E i \in 1..Len(table) :
     /\ table[i].business_owner_id = row.business_owner_id
     /\ table[i].phone_number = row.phone_number

\* Faulty variant: the update goes to every row that looks like the one found
UpdateByValue(table, id, field, value) ==
  [i \in 1..Len(table) |-> IF table[i] = table[id]
                           THEN [table[i] EXCEPT ![field] = value]
                           ELSE table[i]]

\* DB.update(table, {"id": id}, {field: value})
UpdateById(table, id, field, value) ==
  [i \in 1..Len(table) |-> IF i = id THEN [table[i] EXCEPT ![field] = value]
                           ELSE table[i]]

(***************************************************************************)
(* State.                                                                  *)
(***************************************************************************)
VARIABLES
  pc,               \* per connection: where twilio_stream and its callees are
  handler,          \* per connection: the VoiceCallHandler (exists = FALSE: None)
  loc,              \* per connection: locals of the call in progress
  their_customers,  \* data store tables
  bookings,
  interactions,
  outbox,           \* the send_sms calls made so far
  ev,               \* per connection: what the event being handled has done
  snap,             \* per connection: the data store when that event arrived
  turns,            \* per connection: media events delegated so far
  inflight,         \* per connection: process_speech calls not yet returned
  first_frame       \* per connection: the text of the first audio frame sent

vars ==
  <<pc, handler, loc, their_customers, bookings, interactions, outbox, ev, snap,
    turns, inflight, first_frame>>

NoHandler ==
  [exists |-> FALSE, call_sid |-> "none", from_number |-> "none",
   to_number |-> "none", owner |-> NoOwner, customer |-> 0, is_owner |-> FALSE,
   transcript |-> <<>>, conversation_history |-> <<>>]

NoLoc ==
  [user_text |-> <<>>, ai_response |-> <<>>, action_data |-> NoDirective,
   phone |-> "none", row |-> 0, read_calls |-> 0]

NoFrame == <<"#noframe">>           \* no audio frame has been sent yet

\* had: the transcript and conversation_history when the event arrived;
\* req: the contents of the completion request of the turn (<<>>: none made)
NoEv ==
  [kind |-> "none", done |-> FALSE, heard |-> NoResult, resp |-> <<>>,
   spoke |-> <<>>, stt |-> 0, gen |-> 0, tts |-> 0, sent |-> 0, sms |-> 0,
   faults |-> {}, returned |-> "none",
   had |-> [transcript |-> <<>>, conversation_history |-> <<>>], req |-> <<>>]

NoSnap == [their_customers |-> <<>>, bookings |-> <<>>, interactions |-> <<>>]

Snapshot ==
  [their_customers |-> their_customers, bookings |-> bookings,
   interactions |-> interactions]

\* The data store as earlier calls may have left it.
InitialStores ==
  LET ann == CustomerRow("B1", "P1", "Ann", 1)
      bk(status) == BookingRow("B1", 1, "Ann", "P1", "today", "T1", status)
      later == BookingRow("B1", 1, "Ann", "P1", "tomorrow", "T0", "pending")
  IN  { [c |-> <<>>, b |-> <<>>],
        [c |-> <<ann>>,
         b |-> <<bk("done"), bk("pending"), bk("pending"), later>>] }

InitWith(open) ==
  /\ pc = [s \in Conns |-> IF s \in open THEN "connecting" ELSE "closed"]
  /\ handler = [s \in Conns |-> NoHandler]
  /\ loc = [s \in Conns |-> NoLoc]
  /\ \E st \in InitialStores : their_customers = st.c /\ bookings = st.b
  /\ interactions = <<>>
  /\ outbox = <<>>
  /\ ev = [s \in Conns |-> NoEv]
  /\ snap = [s \in Conns |-> NoSnap]
  /\ turns = [s \in Conns |-> 0]
  /\ inflight = [s \in Conns |-> 0]
  /\ first_frame = [s \in Conns |-> NoFrame]

Init == InitWith({"c1"})

\* Faulty variant: the media branch hands process_speech to a worker thread
\* and the loop goes straight back to ws.receive()
LoopReceivingThreaded(s) == pc[s] /= "closed"

\* twilio_stream is back at ws.receive(): the body of the loop has finished
LoopReceiving(s) == pc[s] \in {"connecting", "active"}

\* Faulty variant: the loop is not left, the connection stays open
CloseKeepsReceiving(s, e) ==
  /\ pc' = [pc EXCEPT ![s] = "active"]
  /\ ev' = [ev EXCEPT ![s] = [e EXCEPT !.done = TRUE]]
  /\ loc' = [loc EXCEPT ![s] = NoLoc]

\* except/finally of twilio_stream, or break: ws.close()
Close(s, e) ==
  /\ pc' = [pc EXCEPT ![s] = "closed"]
  /\ ev' = [ev EXCEPT ![s] = [e EXCEPT !.done = TRUE]]
  /\ loc' = [loc EXCEPT ![s] = NoLoc]

(***************************************************************************)
(* Call start: VoiceCallHandler.__init__, load_context and the greeting.   *)
(***************************************************************************)
\* DB.find_one("business_owners", {"twilio_phone_number": to, "status": "active"})
FindOwner(to) ==
  LET m == { o \in business_owners :
               o.twilio_phone_number = to /\ o.status = "active" }
  IN  IF m = {} THEN {NoOwner} ELSE m

\* The handlers that __init__ and load_context can build
LoadContext(s, from, to) ==
  { [NoHandler EXCEPT
       !.exists = TRUE, !.call_sid = s, !.from_number = from, !.to_number = to,
       !.owner = o,
       !.is_owner = (o /= NoOwner /\ from = o.phone_number),
       !.customer = IF o = NoOwner \/ from = o.phone_number THEN 0 ELSE c]
    : o \in FindOwner(to),
      c \in FindOne(their_customers,
                    [business_owner_id |-> (CHOOSE b \in FindOwner(to) : TRUE).id,
                     phone_number |-> from]) }

\* Faulty variant: the handler is built but no greeting is synthesized or sent
StartWithoutGreeting(s) ==
  /\ LoopReceiving(s)
  /\ ~handler[s].exists
  /\ \E from \in Callers, to \in Lines :
       \E h \in LoadContext(s, from, to) :
         handler' = [handler EXCEPT ![s] = h]
  /\ pc' = [pc EXCEPT ![s] = "active"]
  /\ loc' = [loc EXCEPT ![s] = NoLoc]
  /\ ev' = [ev EXCEPT ![s] = [NoEv EXCEPT !.kind = "start", !.done = TRUE]]
  /\ snap' = [snap EXCEPT ![s] = Snapshot]
  /\ UNCHANGED <<their_customers, bookings, interactions, outbox, turns,
                 inflight, first_frame>>

\* Faulty variant: the handler is kept in one place shared by all connections
StartSharedHandler(s) ==
  /\ LoopReceiving(s)
  /\ ~handler[s].exists
  /\ \E from \in Callers, to \in Lines, f \in {"none", "db", "tts", "send"} :
       LET e == [NoEv EXCEPT !.kind = "start", !.faults = {f} \ {"none"}]
       IN  /\ snap' = [snap EXCEPT ![s] = Snapshot]
           /\ IF f = "db"
              THEN Close(s, e) /\ UNCHANGED <<handler, first_frame>>
              ELSE \E h \in LoadContext(s, from, to) :
                     /\ handler' = [c \in Conns |-> h]
                     /\ CASE f = "tts"  ->
                               /\ Close(s, [e EXCEPT !.tts = 1])
                               /\ UNCHANGED first_frame
                          [] f = "send" ->
                               /\ Close(s, [e EXCEPT !.tts = 1, !.spoke = Greeting])
                               /\ UNCHANGED first_frame
                          [] OTHER ->
                               /\ pc' = [pc EXCEPT ![s] = "active"]
                               /\ loc' = [loc EXCEPT ![s] = NoLoc]
                               /\ first_frame' =
                                    [first_frame EXCEPT ![s] = Greeting]
                               /\ ev' = [ev EXCEPT ![s] =
                                    [e EXCEPT !.tts = 1, !.sent = 1,
                                       !.spoke = Greeting, !.done = TRUE]]
  /\ UNCHANGED <<their_customers, bookings, interactions, outbox, turns, inflight>>

\* event == "start"; the transport sends it once, first, on a connection.
\* f: which call fails, if any (a data-store read of
\* load_context, the synthesis of the greeting, ws.send)
Start(s) ==
  /\ LoopReceiving(s)
  /\ ~handler[s].exists
  /\ \E from \in Callers, to \in Lines, f \in {"none", "db", "tts", "send"} :
       LET e == [NoEv EXCEPT !.kind = "start", !.faults = {f} \ {"none"}]
       IN  /\ snap' = [snap EXCEPT ![s] = Snapshot]
           /\ IF f = "db"
              THEN Close(s, e) /\ UNCHANGED <<handler, first_frame>>
              ELSE \E h \in LoadContext(s, from, to) :
                     /\ handler' = [handler EXCEPT ![s] = h]
                     /\ CASE f = "tts"  ->
                               /\ Close(s, [e EXCEPT !.tts = 1])
                               /\ UNCHANGED first_frame
                          [] f = "send" ->
                               /\ Close(s, [e EXCEPT !.tts = 1, !.spoke = Greeting])
                               /\ UNCHANGED first_frame
                          [] OTHER ->
                               /\ pc' = [pc EXCEPT ![s] = "active"]
                               /\ loc' = [loc EXCEPT ![s] = NoLoc]
                               /\ first_frame' =
                                    [first_frame EXCEPT ![s] = Greeting]
                               /\ ev' = [ev EXCEPT ![s] =
                                    [e EXCEPT !.tts = 1, !.sent = 1,
                                       !.spoke = Greeting, !.done = TRUE]]
  /\ UNCHANGED <<their_customers, bookings, interactions, outbox, turns, inflight>>

(***************************************************************************)
(* Media events: twilio_stream hands the frame to process_speech.          *)
(***************************************************************************)
\* event == "media" and handler is None: the event falls through the elifs
MediaBeforeStart(s) ==
  /\ LoopReceiving(s)
  /\ ~handler[s].exists
  /\ ev' = [ev EXCEPT ![s] = [NoEv EXCEPT !.kind = "media", !.done = TRUE]]
  /\ snap' = [snap EXCEPT ![s] = Snapshot]
  /\ UNCHANGED <<pc, handler, loc, their_customers, bookings, interactions,
                 outbox, turns, inflight,
                 first_frame>>

\* event == "media" and handler: loop.run_until_complete(process_speech(...))
MediaRecv(s) ==
  /\ LoopReceiving(s)
  /\ handler[s].exists
  /\ turns[s] < MaxTurns
  /\ pc' = [pc EXCEPT ![s] = "stt"]
  /\ turns' = [turns EXCEPT ![s] = @ + 1]
  /\ inflight' = [inflight EXCEPT ![s] = @ + 1]
  /\ ev' = [ev EXCEPT ![s] =
       [NoEv EXCEPT !.kind = "media",
                    !.had = [transcript |-> handler[s].transcript,
                             conversation_history |->
                                handler[s].conversation_history]]]
  /\ snap' = [snap EXCEPT ![s] = Snapshot]
  /\ loc' = [loc EXCEPT ![s] = NoLoc]
  /\ UNCHANGED <<handler, their_customers, bookings, interactions, outbox,
                 first_frame>>

\* process_speech returns ret to twilio_stream, which sends a frame when ret is
\* audio ("if response_audio:") and goes back to ws.receive()
Return(s, e, ret) ==
  /\ pc' = [pc EXCEPT ![s] = "active"]
  /\ inflight' = [inflight EXCEPT ![s] = @ - 1]
  /\ loc' = [loc EXCEPT ![s] = NoLoc]
  /\ ev' = [ev EXCEPT ![s] =
       [e EXCEPT !.done = TRUE, !.returned = ret,
                 !.sent = IF ret = "audio" THEN e.sent + 1 ELSE e.sent]]

\* Faulty variant: only the empty transcript is refused
TooShortOnlyEmpty(t) == t = <<>>

\* Faulty variant: the length is taken without strip()
TooShortNoStrip(t) == t = <<>> \/ CharLen(t) < MinTranscriptLen

\* not user_text or len(user_text.strip()) < 2
TooShort(t) == t = <<>> \/ CharLen(Strip(t)) < MinTranscriptLen

\* stt_client.recognize and the two early returns of process_speech
Recognize(s) ==
  /\ pc[s] = "stt"
  /\ \E out \in {"error", "results"}, t \in UserTexts \cup {NoResult} :
       LET e == [ev[s] EXCEPT !.stt = @ + 1, !.heard = t,
                              !.faults = IF out = "error" THEN {"stt"} ELSE {}]
       IN  IF out = "error" \/ t = NoResult \/ TooShort(t)
           THEN /\ (out = "error" => t = NoResult)
                /\ Return(s, e, "None")
                /\ UNCHANGED handler
           ELSE /\ handler' = [handler EXCEPT ![s].transcript =
                     Append(@, [role |-> "user", content |-> t])]
                /\ pc' = [pc EXCEPT ![s] = "gen"]
                /\ loc' = [loc EXCEPT ![s].user_text = t]
                /\ ev' = [ev EXCEPT ![s] = e]
                /\ UNCHANGED inflight
  /\ UNCHANGED <<their_customers, bookings, interactions, outbox, snap, turns,
                 first_frame>>

(***************************************************************************)
(* The turn: completion, action handling, synthesis.                       *)
(***************************************************************************)
Today == "today"          \* now.strftime("%Y-%m-%d")

\* Faulty variant: the schedule is read without the status filter
TodayKeyAnyStatus(h) ==
  [business_owner_id |-> h.owner.id, booking_date |-> Today]

\* The filter of the find_many of get_system_prompt
TodayKey(h) ==
  [business_owner_id |-> h.owner.id, booking_date |-> Today,
   status |-> "pending"]

\* The order of booking_time values under ORDER BY booking_time ASC
TimeRank(time) ==
  CASE time = "T0" -> 0 [] time = "T1" -> 1 [] time = "T2" -> 2
    [] time = "T3" -> 3 [] OTHER -> 4

RECURSIVE Ordered(_, _)
\* The orders in which ORDER BY booking_time ASC may return the rows ids:
\* ascending by time, rows of equal time in any order
Ordered(table, ids) ==
  IF ids = {} THEN {<<>>}
  ELSE UNION { { <<i>> \o rest : rest \in Ordered(table, ids \ {i}) } :
               i \in { j \in ids : \A k \in ids :
                          TimeRank(table[j].booking_time)
                            <= TimeRank(table[k].booking_time) } }

NoAppointments == << [name |-> "#No appointments today", at |-> "none"] >>

\* appointments_today: the "name at time" entries of the rows found, in the
\* order find_many returned them, or the fixed text when there are none
AppointmentsToday(h, table) ==
  IF Matching(table, TodayKey(h)) = {} THEN {NoAppointments}
  ELSE { [i \in 1..Len(o) |-> [name |-> table[o[i]].customer_name,
                               at |-> table[o[i]].booking_time]]
         : o \in Ordered(table, Matching(table, TodayKey(h))) }

NoPrompt == [mode |-> "none", schedule |-> <<>>, customer |-> 0]

\* get_system_prompt(), given the appointments_today it read
SystemPrompt(h, appointments_today) ==
  IF h.is_owner
  THEN [mode |-> "manager", schedule |-> appointments_today, customer |-> 0]
  ELSE [mode |-> "receptionist", schedule |-> appointments_today,
        customer |-> h.customer]

\* Faulty variant: the oldest entries are taken, text[:10]
LastEntriesOldest(hist) ==
  SubSeq(hist, 1, IF Len(hist) > HistoryLimit THEN HistoryLimit ELSE Len(hist))

\* self.conversation_history[-10:]
LastEntries(hist) ==
  SubSeq(hist, IF Len(hist) > HistoryLimit THEN Len(hist) - HistoryLimit + 1
               ELSE 1, Len(hist))

\* contents of get_gemini_response: the system prompt, the history window
\* (role "assistant" sent as "model"), the current user message
Contents(h, user_text, appointments_today) ==
  LET w == LastEntries(h.conversation_history)
  IN  << [role |-> "user", text |-> <<>>,
          prompt |-> SystemPrompt(h, appointments_today)] >>
      \o [i \in 1..Len(w) |->
            [role |-> IF w[i].role = "assistant" THEN "model" ELSE "user",
             text |-> w[i].content, prompt |-> NoPrompt]]
      \o << [role |-> "user", text |-> user_text, prompt |-> NoPrompt] >>

\* Faulty variant: the except branch returns an empty text, not the apology
GeminiResponseNoFallback(h, user_text, f, r) ==
  LET failed == h.owner = NoOwner \/ f /= "none"
  IN  [text   |-> IF failed THEN <<>> ELSE r,
       called |-> h.owner /= NoOwner /\ f /= "db",
       history |-> IF failed THEN h.conversation_history
                   ELSE h.conversation_history
                          \o << [role |-> "user", content |-> user_text],
                                [role |-> "assistant", content |-> r] >>]

\* Faulty variant: the utterance is put into the history before the call, and
\* stays there when the call fails
GeminiResponseAppendsFirst(h, user_text, f, r) ==
  LET failed == h.owner = NoOwner \/ f /= "none"
  IN  [text   |-> IF failed THEN Apology ELSE r,
       called |-> h.owner /= NoOwner /\ f /= "db",
       history |-> IF failed
                   THEN Append(h.conversation_history,
                               [role |-> "user", content |-> user_text])
                   ELSE h.conversation_history
                          \o << [role |-> "user", content |-> user_text],
                                [role |-> "assistant", content |-> r] >>]

\* get_gemini_response(user_text).  f: "db" when the data-store read of
\* get_system_prompt fails, "gen" when generate_content fails; r: the text the
\* completion service returns when it is reached.  self.owner["id"] raises
\* when load_context found no business.  Every exception is answered by the
\* fixed apology, and conversation_history is appended to on success only.
GeminiResponse(h, user_text, f, r) ==
  LET failed == h.owner = NoOwner \/ f /= "none"
  IN  [text   |-> IF failed THEN Apology ELSE r,
       called |-> h.owner /= NoOwner /\ f /= "db",
       history |-> IF failed THEN h.conversation_history
                   ELSE h.conversation_history
                          \o << [role |-> "user", content |-> user_text],
                                [role |-> "assistant", content |-> r] >>]

\* process_speech from the completion call to the action detection
Generate(s) ==
  /\ pc[s] = "gen"
  /\ \E f \in {"none", "db", "gen"}, r \in Responses,
        today \in AppointmentsToday(handler[s], bookings) :
       LET h == handler[s]
           g == GeminiResponse(h, loc[s].user_text, f, r)
       IN  /\ (f /= "none" \/ h.owner = NoOwner => r = <<"o", "k">>)
           /\ (h.owner = NoOwner => f = "none")
           /\ handler' = [handler EXCEPT
                ![s].conversation_history = g.history,
                ![s].transcript =
                   Append(@, [role |-> "assistant", content |-> g.text])]
           /\ loc' = [loc EXCEPT ![s].ai_response = g.text]
           /\ ev' = [ev EXCEPT ![s].resp = g.text,
                               ![s].gen = IF g.called THEN @ + 1 ELSE @,
                               ![s].req = IF g.called
                                          THEN Contents(h, loc[s].user_text, today)
                                          ELSE <<>>,
                               ![s].faults = @ \cup ({f} \ {"none"})]
           /\ pc' = [pc EXCEPT ![s] =
                       IF HasActionMarker(g.text) THEN "act" ELSE "tts"]
  /\ UNCHANGED <<their_customers, bookings, interactions, outbox, snap, turns,
                 inflight,
                 first_frame>>

\* handle_action returns (normally or through its except): on to synthesis
ActionDone(s, failed) ==
  /\ pc' = [pc EXCEPT ![s] = "tts"]
  /\ ev' = [ev EXCEPT ![s].faults = IF failed THEN @ \cup {"db"} ELSE @]

\* Faulty variant: the lookup leaves out the booking_time
EditKeyNoTime(h, d) ==
  [business_owner_id |-> h.owner.id, customer_name |-> d.customer_name,
   status |-> "pending"]

\* The filter of the edit_booking lookup
EditKey(h, d) ==
  [business_owner_id |-> h.owner.id, customer_name |-> d.customer_name,
   booking_time |-> d.old_time, status |-> "pending"]

\* handle_action up to its first data-store call: the parse, the dispatch on
\* the action and the find_one of the branch taken
HandleAction(s) ==
  /\ pc[s] = "act"
  /\ LET h == handler[s]
         p == JsonLoads(JsonStr(loc[s].ai_response))
         d == p.obj
         phone == Get(d, "customer_phone", h.from_number)
     IN  \E f \in {"none", "db"} :
           CASE ~p.ok \/ h.owner = NoOwner
                  \/ d.action \notin {"create_booking", "edit_booking"} ->
                  /\ f = "none"
                  /\ ActionDone(s, FALSE)
                  /\ UNCHANGED loc
             [] OTHER ->
                  IF f = "db"
                  THEN ActionDone(s, TRUE) /\ UNCHANGED loc
                  ELSE IF d.action = "create_booking"
                  THEN \E c \in FindOne(their_customers,
                                  [business_owner_id |-> h.owner.id,
                                   phone_number |-> phone]) :
                         /\ loc' = [loc EXCEPT ![s].action_data = d,
                                               ![s].phone = phone, ![s].row = c]
                         /\ pc' = [pc EXCEPT ![s] =
                                     IF c = 0 THEN "act_cust" ELSE "act_book"]
                         /\ UNCHANGED ev
                  ELSE \E b \in FindOne(bookings, EditKey(h, d)) :
                         IF b = 0
                         THEN ActionDone(s, FALSE) /\ UNCHANGED loc
                         ELSE /\ loc' = [loc EXCEPT ![s].action_data = d,
                                                    ![s].row = b]
                              /\ pc' = [pc EXCEPT ![s] = "act_upd"]
                              /\ UNCHANGED ev
  /\ UNCHANGED <<handler, their_customers, bookings, interactions, outbox, snap,
                 turns, inflight,
                 first_frame>>

\* create_booking: DB.insert("their_customers", ...) when find_one found none
InsertCustomer(s) ==
  /\ pc[s] = "act_cust"
  /\ LET h == handler[s]
         d == loc[s].action_data
         row == CustomerRow(h.owner.id, loc[s].phone,
                            Get(d, "customer_name", "Unknown"), 0)
     IN  \E f \in {"none", "db"} :
           IF f = "db" \/ ViolatesUnique(their_customers, row)
           THEN /\ ActionDone(s, f = "db")
                /\ UNCHANGED <<their_customers, loc>>
           ELSE /\ their_customers' = Append(their_customers, row)
                /\ loc' = [loc EXCEPT ![s].row = Len(their_customers) + 1]
                /\ pc' = [pc EXCEPT ![s] = "act_book"]
                /\ UNCHANGED ev
  /\ UNCHANGED <<handler, bookings, interactions, outbox, snap, turns,
                 inflight,
                 first_frame>>

\* Faulty variant: a failed Booking insert takes the Customer row that the
\* same directive inserted back out
InsertBookingRollsBack(s) ==
  /\ pc[s] = "act_book"
  /\ LET h == handler[s]
         d == loc[s].action_data
     IN  \E f \in {"none", "db"} :
           IF f = "db"
           THEN /\ ActionDone(s, TRUE)
                /\ their_customers' =
                     IF Len(their_customers) > Len(snap[s].their_customers)
                     THEN SubSeq(their_customers, 1, Len(their_customers) - 1)
                     ELSE their_customers
                /\ UNCHANGED <<bookings, outbox>>
           ELSE /\ bookings' = Append(bookings,
                     BookingRow(h.owner.id, loc[s].row, d.customer_name,
                                loc[s].phone, d.booking_date, d.booking_time,
                                "pending"))
                /\ outbox' = Append(outbox,
                     [to |-> h.owner.phone_number, kind |-> "booking", by |-> s])
                /\ pc' = [pc EXCEPT ![s] = "tts"]
                /\ ev' = [ev EXCEPT ![s].sms = @ + 1]
                /\ UNCHANGED their_customers
  /\ UNCHANGED <<handler, loc, interactions, snap, turns, inflight, first_frame>>

\* create_booking: DB.insert("bookings", ...) and the send_sms to the owner
InsertBooking(s) ==
  /\ pc[s] = "act_book"
  /\ LET h == handler[s]
         d == loc[s].action_data
     IN  \E f \in {"none", "db"} :
           IF f = "db"
           THEN ActionDone(s, TRUE) /\ UNCHANGED <<bookings, outbox>>
           ELSE /\ bookings' = Append(bookings,
                     BookingRow(h.owner.id, loc[s].row, d.customer_name,
                                loc[s].phone, d.booking_date, d.booking_time,
                                "pending"))
                /\ outbox' = Append(outbox,
                     [to |-> h.owner.phone_number, kind |-> "booking", by |-> s])
                /\ pc' = [pc EXCEPT ![s] = "tts"]
                /\ ev' = [ev EXCEPT ![s].sms = @ + 1]
  /\ UNCHANGED <<handler, loc, their_customers, interactions, snap, turns,
                 inflight,
                 first_frame>>

\* Faulty variant: the update is never committed
UpdateBookingUncommitted(s) ==
  /\ pc[s] = "act_upd"
  /\ ActionDone(s, FALSE)
  /\ UNCHANGED <<handler, loc, their_customers, bookings, interactions, outbox,
                 snap, turns, inflight,
                 first_frame>>

\* edit_booking: DB.update("bookings", {"id": booking["id"]}, {"booking_time": ...})
UpdateBooking(s) ==
  /\ pc[s] = "act_upd"
  /\ \E f \in {"none", "db"} :
       IF f = "db"
       THEN ActionDone(s, TRUE) /\ UNCHANGED bookings
       ELSE /\ bookings' = UpdateById(bookings, loc[s].row, "booking_time",
                                      loc[s].action_data.new_time)
            /\ ActionDone(s, FALSE)
  /\ UNCHANGED <<handler, loc, their_customers, interactions, outbox, snap,
                 turns, inflight,
                 first_frame>>

\* Faulty variant: the response is spoken as it came
SpokenTextUnmodified(resp) == resp

\* The text handed to synthesis: the response, cut at the directive and
\* trimmed whenever the marker was seen (whatever handle_action did)
SpokenText(resp) ==
  IF HasActionMarker(resp) THEN Strip(BeforeBrace(resp)) ELSE resp

\* Faulty variant: process_speech has no except, a synthesis failure reaches
\* the except of twilio_stream
SynthesizeRaises(s) ==
  /\ pc[s] = "tts"
  /\ \E f \in {"none", "tts", "send"} :
       LET e == [ev[s] EXCEPT !.tts = @ + 1, !.faults = @ \cup ({f} \ {"none"}),
                              !.spoke = SpokenText(loc[s].ai_response)]
       IN  IF f = "none"
           THEN /\ Return(s, e, "audio")
                /\ first_frame' = [first_frame EXCEPT ![s] =
                                     IF @ = NoFrame THEN e.spoke ELSE @]
           ELSE /\ Close(s, e)
                /\ inflight' = [inflight EXCEPT ![s] = @ - 1]
                /\ UNCHANGED first_frame
  /\ UNCHANGED <<handler, their_customers, bookings, interactions, outbox, snap,
                 turns>>

\* tts_client.synthesize_speech, the return of process_speech and the ws.send
\* of twilio_stream.  f: "tts" when the synthesis fails, "send" when ws.send does
Synthesize(s) ==
  /\ pc[s] = "tts"
  /\ \E f \in {"none", "tts", "send"} :
       LET e == [ev[s] EXCEPT !.tts = @ + 1, !.faults = @ \cup ({f} \ {"none"}),
                              !.spoke = SpokenText(loc[s].ai_response)]
       IN  CASE f = "tts"  -> Return(s, e, "None") /\ UNCHANGED first_frame
             [] f = "send" -> /\ Close(s, [e EXCEPT !.returned = "audio"])
                              /\ inflight' = [inflight EXCEPT ![s] = @ - 1]
                              /\ UNCHANGED first_frame
             [] OTHER      -> /\ Return(s, e, "audio")
                              /\ first_frame' =
                                   [first_frame EXCEPT ![s] =
                                      IF @ = NoFrame THEN e.spoke ELSE @]
  /\ UNCHANGED <<handler, their_customers, bookings, interactions, outbox, snap,
                 turns>>

(***************************************************************************)
(* Call end: the stop event and save_call_log.                             *)
(***************************************************************************)
\* Faulty variant: the stop branch breaks without calling save_call_log
StopWithoutFinalizing(s) ==
  /\ LoopReceiving(s)
  /\ Close(s, [NoEv EXCEPT !.kind = "stop"])
  /\ snap' = [snap EXCEPT ![s] = Snapshot]
  /\ UNCHANGED <<handler, their_customers, bookings, interactions, outbox,
                 turns, inflight, first_frame>>

\* Faulty variant: save_call_log does not need the business to be there
StopWithoutBusiness(s) ==
  /\ LoopReceiving(s)
  /\ LET e == [NoEv EXCEPT !.kind = "stop"]
         h == handler[s]
     IN  IF ~h.exists
         THEN Close(s, e)
         ELSE \E f \in {"none", "db"} :
                IF f = "db"
                THEN Close(s, [e EXCEPT !.faults = {"db"}])
                ELSE \E c \in FindOne(their_customers,
                                [business_owner_id |-> h.owner.id,
                                 phone_number |-> h.from_number]) :
                       /\ loc' = [loc EXCEPT ![s] =
                            [NoLoc EXCEPT
                               !.row = c,
                               !.read_calls =
                                  IF c = 0 THEN 0
                                  ELSE their_customers[c].total_calls]]
                       /\ pc' = [pc EXCEPT ![s] = "fin_cust"]
                       /\ ev' = [ev EXCEPT ![s] = e]
  /\ snap' = [snap EXCEPT ![s] = Snapshot]
  /\ UNCHANGED <<handler, their_customers, bookings, interactions, outbox,
                 turns, inflight,
                 first_frame>>

\* event == "stop", up to the first data-store call of save_call_log.
\* Without a handler the loop just breaks; save_call_log raises at once,
\* inside its try, when load_context found no business; otherwise it calls
\* DB.find_one("their_customers", ...)  (f = "db": the call fails)
Stop(s) ==
  /\ LoopReceiving(s)
  /\ LET e == [NoEv EXCEPT !.kind = "stop"]
         h == handler[s]
     IN  IF ~h.exists \/ h.owner = NoOwner
         THEN Close(s, e)
         ELSE \E f \in {"none", "db"} :
                IF f = "db"
                THEN Close(s, [e EXCEPT !.faults = {"db"}])
                ELSE \E c \in FindOne(their_customers,
                                [business_owner_id |-> h.owner.id,
                                 phone_number |-> h.from_number]) :
                       /\ loc' = [loc EXCEPT ![s] =
                            [NoLoc EXCEPT
                               !.row = c,
                               !.read_calls =
                                  IF c = 0 THEN 0
                                  ELSE their_customers[c].total_calls]]
                       /\ pc' = [pc EXCEPT ![s] = "fin_cust"]
                       /\ ev' = [ev EXCEPT ![s] = e]
  /\ snap' = [snap EXCEPT ![s] = Snapshot]
  /\ UNCHANGED <<handler, their_customers, bookings, interactions, outbox,
                 turns, inflight,
                 first_frame>>

\* save_call_log: the DB.update of total_calls, or the DB.insert of the customer
FinWriteCustomer(s) ==
  /\ pc[s] = "fin_cust"
  /\ LET h == handler[s]
         row == CustomerRow(h.owner.id, h.from_number,
                            IF h.is_owner THEN "Owner" ELSE "New Customer", 1)
     IN  \E f \in {"none", "db"} :
           IF f = "db" \/ (loc[s].row = 0 /\ ViolatesUnique(their_customers, row))
           THEN /\ Close(s, [ev[s] EXCEPT !.faults = @ \cup ({f} \ {"none"})])
                /\ UNCHANGED their_customers
           ELSE /\ IF loc[s].row /= 0
                   THEN /\ their_customers' =
                             UpdateById(their_customers, loc[s].row,
                                        "total_calls", loc[s].read_calls + 1)
                        /\ UNCHANGED loc
                   ELSE /\ their_customers' = Append(their_customers, row)
                        /\ loc' = [loc EXCEPT ![s].row = Len(their_customers) + 1]
                /\ pc' = [pc EXCEPT ![s] = "fin_log"]
                /\ UNCHANGED ev
  /\ UNCHANGED <<handler, bookings, interactions, outbox, snap, turns,
                 inflight,
                 first_frame>>

\* Faulty variant: the caller's role is not looked at
SendsUrgentAnyCaller(is_emergency, is_owner) == is_emergency

\* The urgent message goes out for an emergency call of anyone but the owner
SendsUrgent(is_emergency, is_owner) == is_emergency /\ ~is_owner

\* Faulty variant: the booking marker is looked at before the caller
InteractionTypeBookingFirst(is_owner, is_booking) ==
  IF is_booking THEN "booking"
  ELSE IF is_owner THEN "owner_test" ELSE "inbound_call"

\* "owner_test" if self.is_owner else ("booking" if is_booking else "inbound_call")
InteractionType(is_owner, is_booking) ==
  IF is_owner THEN "owner_test"
  ELSE IF is_booking THEN "booking" ELSE "inbound_call"

\* save_call_log from the transcript to the end: the summary (sf: the summary
\* call fails), the Interaction insert (f = "db": it fails) and the urgent
\* send_sms; then twilio_stream breaks out of the loop
FinLog(s) ==
  /\ pc[s] = "fin_log"
  /\ \E f \in {"none", "db"}, sf \in BOOLEAN,
        full_transcript \in {FullTranscript(handler[s].transcript)} :
       LET h == handler[s]
           ai_summary == IF sf THEN Take(full_transcript, SummaryFallbackLen)
                         ELSE <<"#summary">>
           is_emergency == IsEmergency(full_transcript)
           is_booking == HasCreateBooking(full_transcript)
           row == [vapi_call_id |-> h.call_sid,
                   business_owner_id |-> h.owner.id,
                   customer_id |-> loc[s].row,
                   type |-> InteractionType(h.is_owner, is_booking),
                   caller_phone |-> h.from_number,
                   transcript |-> full_transcript,
                   summary |-> ai_summary,
                   is_emergency |-> is_emergency]
           e == [ev[s] EXCEPT
                   !.gen = @ + 1,
                   !.faults = @ \cup ({f} \ {"none"})
                                \cup (IF sf THEN {"summary"} ELSE {})]
       IN  IF f = "db"
           THEN Close(s, e) /\ UNCHANGED <<interactions, outbox>>
           ELSE /\ interactions' = Append(interactions, row)
                /\ IF SendsUrgent(is_emergency, h.is_owner)
                   THEN /\ outbox' = Append(outbox,
                             [to |-> h.owner.phone_number, kind |-> "emergency",
                              by |-> s])
                        /\ Close(s, [e EXCEPT !.sms = @ + 1])
                   ELSE /\ UNCHANGED outbox
                        /\ Close(s, e)
  /\ UNCHANGED <<handler, their_customers, bookings, snap, turns, inflight,
                 first_frame>>

\* Faulty variant: the end of the connection is treated like a stop event
DisconnectFinalizes(s) ==
  /\ LoopReceiving(s)
  /\ LET e == [NoEv EXCEPT !.kind = "disconnect"]
         h == handler[s]
     IN  IF ~h.exists \/ h.owner = NoOwner
         THEN Close(s, e)
         ELSE \E c \in FindOne(their_customers,
                         [business_owner_id |-> h.owner.id,
                          phone_number |-> h.from_number]) :
                /\ loc' = [loc EXCEPT ![s] =
                     [NoLoc EXCEPT
                        !.row = c,
                        !.read_calls =
                           IF c = 0 THEN 0 ELSE their_customers[c].total_calls]]
                /\ pc' = [pc EXCEPT ![s] = "fin_cust"]
                /\ ev' = [ev EXCEPT ![s] = e]
  /\ snap' = [snap EXCEPT ![s] = Snapshot]
  /\ UNCHANGED <<handler, their_customers, bookings, interactions, outbox,
                 turns, inflight,
                 first_frame>>

\* ws.receive() returns nothing, or raises: the loop ends without a stop event
Disconnect(s) ==
  /\ LoopReceiving(s)
  /\ Close(s, [NoEv EXCEPT !.kind = "disconnect"])
  /\ snap' = [snap EXCEPT ![s] = Snapshot]
  /\ UNCHANGED <<handler, their_customers, bookings, interactions, outbox,
                 turns, inflight,
                 first_frame>>

Next ==
  \E s \in Conns :
    \/ Start(s)
    \/ MediaBeforeStart(s)
    \/ MediaRecv(s)
    \/ Recognize(s)
    \/ Generate(s)
    \/ HandleAction(s)
    \/ InsertCustomer(s)
    \/ InsertBooking(s)
    \/ UpdateBooking(s)
    \/ Synthesize(s)
    \/ Stop(s)
    \/ FinWriteCustomer(s)
    \/ FinLog(s)
    \/ Disconnect(s)

Spec == Init /\ [][Next]_vars

\* save_call_log runs to its end in the thread of twilio_stream: each of its
\* data-store calls returns or raises, and the step after it is taken
Finalizes == \A s \in Conns : WF_vars(FinWriteCustomer(s)) /\ WF_vars(FinLog(s))

\* The calls of at most LiveTurns turns whose completion responses are plain
\* text, a create_booking directive or the apology
LiveLimits ==
  \A s \in Conns :
    /\ turns[s] <= LiveTurns
    /\ ev[s].resp \in {<<>>, <<"o", "k">>, <<"o", "k", " ", "#CB">>, Apology}

LiveNext ==
  \E s \in Conns :
    \/ Start(s) /\ LiveLimits'
    \/ MediaBeforeStart(s) /\ LiveLimits'
    \/ MediaRecv(s) /\ LiveLimits'
    \/ Recognize(s) /\ LiveLimits'
    \/ Generate(s) /\ LiveLimits'
    \/ HandleAction(s) /\ LiveLimits'
    \/ InsertCustomer(s) /\ LiveLimits'
    \/ InsertBooking(s) /\ LiveLimits'
    \/ Synthesize(s) /\ LiveLimits'
    \/ Stop(s) /\ LiveLimits'
    \/ FinWriteCustomer(s) /\ LiveLimits'
    \/ FinLog(s) /\ LiveLimits'
    \/ Disconnect(s) /\ LiveLimits'

LiveSpec == Init /\ [][LiveNext]_vars /\ Finalizes

\* Two calls at the same time, each served by its own twilio_stream thread:
\* the same caller number on the same line, no service or data-store
\* failure, at most RaceTurns turns each
RaceLimits ==
  \A s \in Conns :
    /\ turns[s] <= RaceTurns
    /\ ev[s].faults = {}
    /\ handler[s].from_number \in {"none", "P1"}
    /\ handler[s].to_number \in {"none", "L1"}
    /\ ev[s].heard \in {NoResult, <<"o", "k">>}
    /\ ev[s].resp \in {<<>>, <<"o", "k">>, <<"o", "k", " ", "#CB">>}

RaceInit == InitWith(Conns)

RaceNext ==
  \E s \in Conns :
    \/ Start(s) /\ RaceLimits'
    \/ MediaBeforeStart(s) /\ RaceLimits'
    \/ MediaRecv(s) /\ RaceLimits'
    \/ Recognize(s) /\ RaceLimits'
    \/ Generate(s) /\ RaceLimits'
    \/ HandleAction(s) /\ RaceLimits'
    \/ InsertCustomer(s) /\ RaceLimits'
    \/ InsertBooking(s) /\ RaceLimits'
    \/ Synthesize(s) /\ RaceLimits'
    \/ Stop(s) /\ RaceLimits'
    \/ FinWriteCustomer(s) /\ RaceLimits'
    \/ FinLog(s) /\ RaceLimits'
    \/ Disconnect(s) /\ RaceLimits'

RaceSpec == RaceInit /\ [][RaceNext]_vars

\* The k-th exchange of a call so far, as conversation_history and transcript
\* hold it
Digit(k) ==
  CASE k = 1 -> "1" [] k = 2 -> "2" [] k = 3 -> "3" [] k = 4 -> "4"
    [] k = 5 -> "5" [] k = 6 -> "6" [] k = 7 -> "7" [] OTHER -> "8"

PastExchanges(n) ==
  [i \in 1..(2 * n) |->
     IF i % 2 = 1
     THEN [role |-> "user", content |-> <<"q", Digit((i + 1) \div 2)>>]
     ELSE [role |-> "assistant", content |-> <<"r", Digit(i \div 2)>>]]

\* A call in progress on connection c1: the greeting was sent and n turns,
\* n <= MaxPairs, have been completed; turns counts the media events from
\* here on
WindowInit ==
  /\ pc = [s \in Conns |-> IF s = "c1" THEN "active" ELSE "closed"]
  /\ \E st \in InitialStores : their_customers = st.c /\ bookings = st.b
  /\ \E from \in Callers, n \in 0..MaxPairs :
       \E h \in LoadContext("c1", from, "L1") :
         handler = [s \in Conns |->
                      IF s = "c1"
                      THEN [h EXCEPT !.transcript = PastExchanges(n),
                                     !.conversation_history = PastExchanges(n)]
                      ELSE NoHandler]
  /\ loc = [s \in Conns |-> NoLoc]
  /\ interactions = <<>>
  /\ outbox = <<>>
  /\ ev = [s \in Conns |-> NoEv]
  /\ snap = [s \in Conns |-> NoSnap]
  /\ turns = [s \in Conns |-> 0]
  /\ inflight = [s \in Conns |-> 0]
  /\ first_frame = [s \in Conns |-> IF s = "c1" THEN Greeting ELSE NoFrame]

WindowLimits ==
  \A s \in Conns :
    /\ ev[s].faults \subseteq {"gen"}
    /\ ev[s].heard \in {NoResult, <<"o", "k">>}
    /\ ev[s].resp \in {<<>>, <<"o", "k">>, Apology}

WindowNext ==
  \E s \in Conns :
    \/ MediaRecv(s) /\ WindowLimits'
    \/ Recognize(s) /\ WindowLimits'
    \/ Generate(s) /\ WindowLimits'
    \/ Synthesize(s) /\ WindowLimits'
    \/ Stop(s) /\ WindowLimits'
    \/ FinWriteCustomer(s) /\ WindowLimits'
    \/ FinLog(s) /\ WindowLimits'
    \/ Disconnect(s) /\ WindowLimits'

WindowSpec == WindowInit /\ [][WindowNext]_vars

(***************************************************************************)
(* Properties.                                                             *)
(***************************************************************************)
\* A media event that was delegated to process_speech has been dealt with
TurnDone(s) == ev[s].kind = "media" /\ ev[s].done /\ ev[s].stt > 0

\* The response holds a well-formed directive, opening with {"action":, of
\* the given action
ContainsDirective(t, action) ==
  \E i \in 1..Len(t) :
     /\ Macro(t[i]).brace /\ Macro(t[i]).valid
     /\ Macro(t[i]).obj.action = action

\* What handle_action is given is a well-formed directive of the given
\* action: the text from the {"action" opener to the end is that JSON object
ReceivesDirective(t, action) ==
  /\ HasActionMarker(t)
  /\ JsonLoads(JsonStr(t)).ok
  /\ JsonLoads(JsonStr(t)).obj.action = action

StoreUnchangedSince(s) ==
  /\ their_customers = snap[s].their_customers
  /\ bookings = snap[s].bookings
  /\ interactions = snap[s].interactions

UrgentBy(s) == { i \in 1..Len(outbox) : outbox[i].kind = "emergency" /\ outbox[i].by = s }

\* C1: for a media event whose speech-recognition result is absent, or whose
\* transcript has fewer than 2 characters once trimmed, no completion call and
\* no synthesis call is made and no audio frame is sent.
C1_NoiseMakesNoTurn ==
  \A s \in Conns :
    ( /\ ev[s].kind = "media"
      /\ ev[s].stt > 0
      /\ \/ ev[s].heard = NoResult
         \/ CharLen(Strip(ev[s].heard)) < 2 )
    => ev[s].gen = 0 /\ ev[s].tts = 0 /\ ev[s].sent = 0

C1_Witness ==
  \E s \in Conns :
    /\ TurnDone(s)
    /\ ev[s].heard = <<" ", "a", " ">>
    /\ ev[s].returned = "None"
    /\ pc[s] = "active"

\* C2: whenever the AI response of a turn contains a well-formed
\* create_booking directive (wherever it sits in the text, whether or not the
\* Customer exists), exactly one Booking row, with status "pending", is
\* inserted and exactly one notification goes to the owner's phone.  Stated
\* for the turns in which no service and no data-store call failed.
C2_DirectiveAlwaysBooks ==
  \A s \in Conns :
    ( /\ TurnDone(s)
      /\ ev[s].faults = {}
      /\ handler[s].owner /= NoOwner
      /\ ContainsDirective(ev[s].resp, "create_booking") )
    => /\ Len(bookings) = Len(snap[s].bookings) + 1
       /\ SubSeq(bookings, 1, Len(snap[s].bookings)) = snap[s].bookings
       /\ bookings[Len(bookings)].status = "pending"
       /\ ev[s].sms = 1
       /\ outbox /= <<>>
       /\ outbox[Len(outbox)].to = handler[s].owner.phone_number

\* C3: when handle_action receives a well-formed edit_booking directive and
\* the business has a pending Booking with the directive's customer_name and
\* with booking_time = old_time, such a Booking has booking_time = new_time
\* after the turn (the data-store calls of the turn having succeeded).
C3_EditMovesBooking ==
  \A s \in Conns :
    LET d == JsonLoads(JsonStr(ev[s].resp)).obj
        key == [business_owner_id |-> handler[s].owner.id,
                customer_name |-> d.customer_name,
                booking_time |-> d.old_time, status |-> "pending"]
    IN  ( /\ TurnDone(s)
          /\ "db" \notin ev[s].faults
          /\ ReceivesDirective(ev[s].resp, "edit_booking")
          /\ Matching(snap[s].bookings, key) /= {} )
        => \E i \in Matching(snap[s].bookings, key) :
              /\ bookings[i].booking_time = d.new_time
              /\ bookings[i] = [snap[s].bookings[i] EXCEPT !.booking_time = d.new_time]

C3_Witness ==
  \E s \in Conns :
    /\ TurnDone(s)
    /\ ev[s].faults = {}
    /\ ReceivesDirective(ev[s].resp, "edit_booking")
    /\ \E i \in 1..Len(snap[s].bookings) :
          /\ snap[s].bookings[i].status = "pending"
          /\ snap[s].bookings[i].booking_time = "T1"
          /\ bookings[i].booking_time = "T2"

\* C4: when handle_action receives an edit_booking directive and no pending
\* Booking of the business matches (customer_name, old_time), no row of the
\* data store is inserted or updated, no notification is sent, and the turn
\* still returns its spoken response (the text before the directive).
C4_EditWithoutMatchIsNoOp ==
  \A s \in Conns :
    LET d == JsonLoads(JsonStr(ev[s].resp)).obj
        key == [business_owner_id |-> handler[s].owner.id,
                customer_name |-> d.customer_name,
                booking_time |-> d.old_time, status |-> "pending"]
    IN  ( /\ ev[s].kind = "media"
          /\ ReceivesDirective(ev[s].resp, "edit_booking")
          /\ Matching(snap[s].bookings, key) = {} )
        => /\ StoreUnchangedSince(s)
           /\ ev[s].sms = 0
           /\ pc[s] \in {"act", "tts", "active", "closed"}
           /\ (ev[s].done /\ ev[s].faults \subseteq {"db"}
                 => /\ ev[s].returned = "audio"
                    /\ ev[s].sent = 1
                    /\ ev[s].spoke = Strip(BeforeBrace(ev[s].resp))
                    /\ pc[s] = "active")

C4_Witness ==
  \E s \in Conns :
    /\ TurnDone(s)
    /\ ReceivesDirective(ev[s].resp, "edit_booking")
    /\ snap[s].bookings /= <<>>
    /\ \A i \in 1..Len(snap[s].bookings) : snap[s].bookings[i].booking_time /= "T1"
    /\ ev[s].returned = "audio"
    /\ ev[s].spoke = <<"o", "k">>

\* C5: for every call of a caller who is not the owner and whose full
\* transcript contains an emergency keyword, finalization sends exactly one
\* urgent notification to the owner, whatever the outcome of the summary call
\* and of the data-store calls of the finalization.
C5_EmergencyAlwaysNotified ==
  \A s \in Conns :
    ( /\ ev[s].kind = "stop" /\ ev[s].done
      /\ handler[s].exists
      /\ handler[s].owner /= NoOwner
      /\ ~handler[s].is_owner
      /\ IsEmergency(FullTranscript(handler[s].transcript)) )
    => /\ Cardinality(UrgentBy(s)) = 1
       /\ \A i \in UrgentBy(s) : outbox[i].to = handler[s].owner.phone_number

\* C6: in a session whose caller is the business owner no urgent emergency
\* notification is ever sent, whatever the transcript contains.
C6_OwnerCallNeverUrgent ==
  \A s \in Conns : handler[s].is_owner => UrgentBy(s) = {}

C6_Witness ==
  \E s \in Conns :
    /\ handler[s].is_owner
    /\ ev[s].kind = "stop" /\ ev[s].done
    /\ IsEmergency(FullTranscript(handler[s].transcript))
    /\ \E i \in 1..Len(interactions) :
          interactions[i].vapi_call_id = s /\ interactions[i].is_emergency

\* C7: if the callee number of the start event resolves to no active
\* business, no later media event of the connection is delegated to the turn
\* engine: no speech-recognition, completion or synthesis call is made for it
\* and no audio frame answers it.
C7_NoBusinessNoTurn ==
  \A s \in Conns :
    (handler[s].exists /\ handler[s].owner = NoOwner /\ ev[s].kind = "media")
    => ev[s].stt = 0 /\ ev[s].gen = 0 /\ ev[s].tts = 0 /\ ev[s].sent = 0

\* C8: within one session no two turns overlap: process_speech is not started
\* for a media event before the process_speech of the previous one returned.
C8_TurnsDoNotOverlap ==
  \A s \in Conns :
    /\ inflight[s] \in {0, 1}
    /\ inflight[s] = 1 <=> pc[s] \in {"stt", "gen", "act", "act_cust", "act_book",
                                      "act_upd", "tts"}

C8_Witness ==
  \E s \in Conns : turns[s] = 2 /\ pc[s] = "gen" /\ inflight[s] = 1
                   /\ Len(handler[s].conversation_history) = 2

\* The directive marker is in the response and what follows it fails to parse
MarkerButNoParse(t) == HasActionMarker(t) /\ ~JsonLoads(JsonStr(t)).ok

C10_CompletionErrorApologizes ==
  \A s \in Conns :
    (ev[s].kind = "media" /\ "gen" \in ev[s].faults)
    => /\ ev[s].resp = Apology
       /\ handler[s].transcript[Len(handler[s].transcript)] =
             [role |-> "assistant", content |-> Apology]
       /\ pc[s] \in {"tts", "active", "closed"}
       /\ (ev[s].done /\ ev[s].faults = {"gen"}
             => /\ ev[s].spoke = Apology
                /\ ev[s].returned = "audio"
                /\ ev[s].sent = 1)
       /\ (ev[s].done /\ "send" \notin ev[s].faults
             => pc[s] = "active" /\ handler[s].exists)

C10_Witness ==
  \E s \in Conns :
    /\ TurnDone(s)
    /\ ev[s].faults = {"gen"}
    /\ ev[s].spoke = Apology
    /\ ev[s].returned = "audio"
    /\ pc[s] = "active"

\* C11: no failure other than a transport-level I/O error ends the receive
\* loop: when the handling of a start or media event leaves the connection
\* closed, a ws.send failed.  (A failure of context loading, of a service
\* call, the synthesis of the greeting included, of action handling or of
\* persistence is absorbed.)
C11_OnlyTransportErrorsEndLoop ==
  \A s \in Conns :
    (pc[s] = "closed" /\ ev[s].kind \in {"start", "media"})
    => "send" \in ev[s].faults

\* The handling of the stop event: no turn is started, nothing is recognized,
\* synthesized or sent, and the only steps are those of the finalization
StopOnlyFinalizes(s) ==
  ev[s].kind = "stop"
  => /\ ev'[s].kind = "stop"
     /\ turns'[s] = turns[s]
     /\ inflight'[s] = 0
     /\ ev'[s].stt = 0 /\ ev'[s].tts = 0 /\ ev'[s].sent = 0
     /\ pc'[s] \in {"fin_cust", "fin_log", "closed"}

\* Closed is terminal: nothing of the connection changes any more
ClosedIsTerminal(s) ==
  pc[s] = "closed"
  => pc'[s] = "closed" /\ ev'[s] = ev[s] /\ handler'[s] = handler[s]
     /\ turns'[s] = turns[s]

\* C12: after the stop event no new turn is started for the session; the
\* session runs the finalization, then reaches Closed, and no event is
\* processed on the connection after that.
C12_StopFinalizesThenCloses ==
  /\ [][\A s \in Conns : StopOnlyFinalizes(s) /\ ClosedIsTerminal(s)]_vars
  /\ \A s \in Conns : (ev[s].kind = "stop") ~> (pc[s] = "closed")

C12_Witness ==
  \E s \in Conns :
    /\ ev[s].kind = "stop" /\ ev[s].done /\ pc[s] = "closed"
    /\ turns[s] = 1
    /\ \E i \in 1..Len(interactions) : interactions[i].vapi_call_id = s

\* The Interaction rows of the call of connection s
InteractionsOf(s) ==
  { i \in 1..Len(interactions) : interactions[i].vapi_call_id = s }

\* The finalization of a call with a resolved business has ended
Finalized(s) ==
  /\ ev[s].kind = "stop" /\ ev[s].done
  /\ handler[s].exists /\ handler[s].owner /= NoOwner

\* C13: when the stop event arrives for a session with a resolved business,
\* the finalization inserts exactly one Interaction record for the call (its
\* data-store calls succeeding; never more than one in any case), and no
\* step of the engine changes an Interaction record once it is inserted.
C13_OneInteractionNeverMutated ==
  /\ [](\A s \in Conns :
          /\ Cardinality(InteractionsOf(s)) <= 1
          /\ (Finalized(s) /\ "db" \notin ev[s].faults
                => /\ Cardinality(InteractionsOf(s)) = 1
                   /\ \A i \in InteractionsOf(s) :
                        /\ interactions[i].business_owner_id = handler[s].owner.id
                        /\ interactions[i].caller_phone = handler[s].from_number
                        /\ interactions[i].transcript =
                              FullTranscript(handler[s].transcript))
          /\ (~Finalized(s) => InteractionsOf(s) = {}))
  /\ [][\A i \in 1..Len(interactions) :
          Len(interactions') >= i /\ interactions'[i] = interactions[i]]_vars

C13_Witness ==
  \E s \in Conns :
    /\ Finalized(s)
    /\ Cardinality(InteractionsOf(s)) = 1
    /\ Len(handler[s].transcript) = 4
    /\ \A i \in InteractionsOf(s) : interactions[i].type = "booking"

\* The Customer rows of one (business, phone number)
CustomersOf(b, phone) ==
  Matching(their_customers, [business_owner_id |-> b, phone_number |-> phone])

\* C14: for every interleaving of concurrent sessions that find-or-create
\* the Customer of the same (business, phone number), at finalization or in
\* create_booking, the data store never holds two Customer rows of that
\* (business, phone number).
C14_NoDuplicateCustomer ==
  \A i, j \in 1..Len(their_customers) :
    ( /\ their_customers[i].business_owner_id = their_customers[j].business_owner_id
      /\ their_customers[i].phone_number = their_customers[j].phone_number )
    => i = j

\* Both sessions found no Customer; one insert went through, the other was
\* refused by the constraint
C14_Witness ==
  \E s, r \in Conns :
    /\ s /= r
    /\ Finalized(s) /\ Finalized(r)
    /\ snap[s].their_customers = <<>> /\ snap[r].their_customers = <<>>
    /\ InteractionsOf(s) = {} /\ InteractionsOf(r) /= {}
    /\ Cardinality(CustomersOf("B1", "P1")) = 1

\* C15: find-or-create Customer tolerates the duplicate-insert race: each of
\* two sessions of the same (business, phone number) that both found no
\* Customer still completes its operation: the finalization persists its
\* Interaction, create_booking inserts its Booking (no service or data-store
\* call failing for another reason).
C15_RaceStillCompletes ==
  \A s \in Conns :
    /\ (Finalized(s) /\ ev[s].faults \subseteq {"summary"})
         => InteractionsOf(s) /= {}
    /\ ( /\ TurnDone(s) /\ ev[s].faults = {}
          /\ handler[s].owner /= NoOwner
          /\ ReceivesDirective(ev[s].resp, "create_booking") )
         => ev[s].sms = 1

\* C16: a turn that aborts because speech recognition returned no result, or
\* a transcript under 2 trimmed characters, leaves the session's
\* conversation_history, its transcript and the data store as they were
\* before the media event.
C16_AbortedTurnChangesNothing ==
  \A s \in Conns :
    ( /\ ev[s].kind = "media"
      /\ ev[s].stt > 0
      /\ \/ ev[s].heard = NoResult
         \/ CharLen(Strip(ev[s].heard)) < 2 )
    => /\ handler[s].transcript = ev[s].had.transcript
       /\ handler[s].conversation_history = ev[s].had.conversation_history
       /\ StoreUnchangedSince(s)

C16_Witness ==
  \E s \in Conns :
    /\ TurnDone(s)
    /\ turns[s] = 2
    /\ ev[s].heard = <<>>
    /\ ev[s].returned = "None"
    /\ Len(handler[s].transcript) = 2
    /\ Len(handler[s].conversation_history) = 2
    /\ bookings /= <<>>

\* C17: after a start event the first outbound audio frame of the session is
\* the synthesized fixed greeting: it is sent before any media event is
\* processed as a turn, media events that arrive before the start event
\* produce nothing, and no completion call is made to produce it.
C17_GreetingIsFirstFrame ==
  \A s \in Conns :
    /\ first_frame[s] \in {NoFrame, Greeting}
    /\ (turns[s] > 0 => first_frame[s] = Greeting)
    /\ (ev[s].kind = "start"
          => /\ ev[s].gen = 0 /\ ev[s].stt = 0 /\ turns[s] = 0
             /\ (ev[s].done /\ ev[s].faults = {}
                   => /\ ev[s].sent = 1 /\ ev[s].spoke = Greeting
                      /\ first_frame[s] = Greeting))
    /\ (ev[s].kind = "media" /\ ~handler[s].exists
          => /\ ev[s].stt = 0 /\ ev[s].gen = 0 /\ ev[s].tts = 0
             /\ ev[s].sent = 0
             /\ first_frame[s] = NoFrame /\ turns[s] = 0)

C17_Witness ==
  \E s \in Conns :
    /\ first_frame[s] = Greeting
    /\ TurnDone(s)
    /\ ev[s].returned = "audio" /\ ev[s].sent = 1
    /\ ev[s].spoke /= Greeting

\* The rows of a bookings table that are pending Bookings of business b
\* dated today
PendingToday(table, b) ==
  { i \in 1..Len(table) :
      /\ table[i].business_owner_id = b
      /\ table[i].booking_date = "today"
      /\ table[i].status = "pending" }

\* The "name at time" entry of a Booking row
Entry(row) == [name |-> row.customer_name, at |-> row.booking_time]

\* The prompt of the completion request of the turn in progress on s
PromptOf(s) == ev[s].req[1].prompt

\* The prompt of the request is the one of the caller's mode, and its
\* schedule holds one entry for each pending Booking of today and no other
PromptFitsCaller(s) ==
  LET h == handler[s]
      was == snap[s].bookings
      rows == PendingToday(was, h.owner.id)
      schedule == PromptOf(s).schedule
  IN  /\ PromptOf(s).mode =
           IF h.from_number = h.owner.phone_number THEN "manager"
           ELSE "receptionist"
      /\ IF rows = {} THEN schedule = NoAppointments
         ELSE /\ Len(schedule) = Cardinality(rows)
              /\ \A i \in rows :
                   Cardinality({ k \in 1..Len(schedule) : schedule[k] = Entry(was[i]) })
                     = Cardinality({ j \in rows : Entry(was[j]) = Entry(was[i]) })

\* C18: when the caller number equals the business's owning phone number,
\* every turn's prompt is the Manager Mode prompt and its schedule lists
\* exactly the pending Bookings of the business dated today as "name at
\* time" entries (the fixed fallback text when there are none); for any other
\* caller number the Receptionist Mode prompt is used; the mode never changes
\* during a session.
C18_PromptModeAndSchedule ==
  /\ [](\A s \in Conns :
          (ev[s].kind = "media" /\ ev[s].req /= <<>>) => PromptFitsCaller(s))
  /\ [][\A s \in Conns :
          handler[s].exists
          => /\ handler'[s].is_owner = handler[s].is_owner
             /\ handler'[s].from_number = handler[s].from_number
             /\ handler'[s].owner = handler[s].owner]_vars

C18_Witness ==
  \E s \in Conns :
    /\ TurnDone(s)
    /\ turns[s] = 2
    /\ handler[s].from_number = "O1"
    /\ ev[s].req /= <<>>
    /\ PromptOf(s).mode = "manager"
    /\ PromptOf(s).schedule = << [name |-> "Ann", at |-> "T1"],
                                 [name |-> "Ann", at |-> "T2"] >>
    /\ Len(snap[s].bookings) = 4

\* C19: the completion request of a turn consists of, in this order, the
\* system prompt composed for this turn, the most recent entries of the
\* conversation history as it was before the turn (at most 10, in their
\* order), and the user utterance of the turn as the last entry, once.
C19_RequestOrder ==
  \A s \in Conns :
    (ev[s].kind = "media" /\ ev[s].req /= <<>>)
    => LET req == ev[s].req
           hist == ev[s].had.conversation_history
           n == Len(req) - 2
       IN  /\ n = IF Len(hist) > HistoryLimit THEN HistoryLimit ELSE Len(hist)
           /\ req[1].prompt /= NoPrompt
           /\ req[1].prompt.schedule \in AppointmentsToday(handler[s], snap[s].bookings)
           /\ \A k \in 1..n :
                /\ req[1 + k].prompt = NoPrompt
                /\ req[1 + k].text = hist[Len(hist) - n + k].content
                /\ req[1 + k].role =
                     IF hist[Len(hist) - n + k].role = "assistant" THEN "model"
                     ELSE "user"
           /\ req[Len(req)] =
                [role |-> "user", text |-> ev[s].heard, prompt |-> NoPrompt]

C19_Witness ==
  \E s \in Conns :
    /\ TurnDone(s)
    /\ ev[s].faults = {}
    /\ Len(ev[s].had.conversation_history) = 12
    /\ Len(ev[s].req) = 12
    /\ ev[s].req[2].text = <<"q", "2">>
    /\ ev[s].req[11].text = <<"r", "6">>
    /\ ev[s].req[12].text = <<"o", "k">>

\* The entries a turn adds to the transcript and to the history
TurnEntries(s) ==
  << [role |-> "user", content |-> ev[s].heard],
     [role |-> "assistant", content |-> ev[s].resp] >>

\* C20: if speech synthesis fails in a turn, no audio frame is sent for the
\* turn and the session continues: the next media event is delegated as a
\* turn, and the transcript and history entries of the failed turn are kept.
C20_SynthesisFailureIsSilence ==
  \A s \in Conns :
    (ev[s].kind = "media" /\ "tts" \in ev[s].faults)
    => /\ ev[s].done /\ ev[s].sent = 0 /\ ev[s].returned = "None"
       /\ pc[s] = "active" /\ handler[s].exists /\ inflight[s] = 0
       /\ (turns[s] < MaxTurns => ENABLED MediaRecv(s))
       /\ handler[s].transcript = ev[s].had.transcript \o TurnEntries(s)
       /\ IF ev[s].gen > 0 /\ "gen" \notin ev[s].faults
          THEN handler[s].conversation_history =
                 ev[s].had.conversation_history \o TurnEntries(s)
          ELSE handler[s].conversation_history = ev[s].had.conversation_history

C20_Witness ==
  \E s \in Conns :
    /\ TurnDone(s)
    /\ ev[s].faults = {"tts"}
    /\ turns[s] = 1
    /\ ev[s].returned = "None"
    /\ pc[s] = "active"
    /\ Len(handler[s].conversation_history) = 2

\* What one connection holds of its own: the position of its loop, its
\* handler, the locals of the running call and the record of its last event
Steps(s) ==
  \/ pc'[s] /= pc[s]
  \/ ev'[s] /= ev[s]
  \/ loc'[s] /= loc[s]
  \/ turns'[s] /= turns[s]

\* C21: a step of one call session never changes another, concurrently
\* running session's transcript, conversation_history, business, customer or
\* is_owner flag; the sessions share nothing but the data store: whenever some
\* per-connection state of a session changes, the step is that session's own
\* and leaves every other connection's per-connection state as it was.
C21_SessionsAreIsolated ==
  [][\A s \in Conns : \A r \in Conns \ {s} :
       Steps(s)
       => /\ handler'[r].transcript = handler[r].transcript
          /\ handler'[r].conversation_history = handler[r].conversation_history
          /\ handler'[r].owner = handler[r].owner
          /\ handler'[r].customer = handler[r].customer
          /\ handler'[r].is_owner = handler[r].is_owner
          /\ handler'[r] = handler[r]
          /\ ~Steps(r)
          /\ first_frame'[r] = first_frame[r]
          /\ inflight'[r] = inflight[r]]_vars

\* Two calls of the same business ran side by side and hold different
\* transcripts
C21_Witness ==
  /\ \A s \in Conns :
       /\ pc[s] = "active"
       /\ Len(handler[s].transcript) = 2
       /\ handler[s].owner /= NoOwner
  /\ handler["c1"].to_number = handler["c2"].to_number
  /\ handler["c1"].transcript /= handler["c2"].transcript

GasLeak == <<"g", "a", "s", " ", "l", "e", "a", "k">>

\* The text holds the keyword in some mix of upper and lower case
Mentions(text, kw) ==
  \E i \in 1..(Len(text) - Len(kw) + 1) :
    \A j \in 1..Len(kw) : LowerChar(text[i + j - 1]) = kw[j]

\* C22: every persisted Interaction has is_emergency = true exactly when its
\* full transcript contains an emergency keyword in any letter case; so the
\* Interaction of a finalized non-owner call whose transcript contains
\* "gas leak" has is_emergency = true.
C22_EmergencyFlagFollowsTranscript ==
  [] /\ \A i \in 1..Len(interactions) :
          interactions[i].is_emergency
          <=> \E kw \in emergency_keywords : Mentions(interactions[i].transcript, kw)
     /\ \A s \in Conns :
          ( /\ ev[s].kind = "stop" /\ ev[s].done
            /\ "db" \notin ev[s].faults
            /\ handler[s].owner /= NoOwner
            /\ ~handler[s].is_owner
            /\ Mentions(FullTranscript(handler[s].transcript), GasLeak) )
          => \E i \in InteractionsOf(s) : interactions[i].is_emergency

\* A customer said "GAS LEAK" in capitals, and the call was finalized
C22_Witness ==
  \E s \in Conns :
    /\ ev[s].kind = "stop" /\ ev[s].done
    /\ ~handler[s].is_owner
    /\ \E k \in 1..Len(handler[s].transcript) :
         /\ handler[s].transcript[k].role = "user"
         /\ Mentions(handler[s].transcript[k].content, GasLeak)
         /\ ~Contains(handler[s].transcript[k].content, GasLeak)
    /\ \E i \in InteractionsOf(s) :
         /\ interactions[i].is_emergency
         /\ interactions[i].type = "inbound_call"

\* The media event of the connection got as far as the completion step
ReachedGenerating(s) ==
  /\ ev[s].kind = "media" /\ ev[s].stt > 0
  /\ pc[s] /= "stt"
  /\ "stt" \notin ev[s].faults
  /\ ev[s].heard /= NoResult
  /\ ~TooShort(ev[s].heard)

\* C23: in every turn that reaches the completion step the rolling
\* conversation history holds the user utterance from the beginning of that
\* step, and once the response text is there, the utterance followed by the
\* response text, be it the answer of the completion service or the fixed
\* apology.
C23_HistoryHoldsEveryTurn ==
  \A s \in Conns :
    ReachedGenerating(s)
    => LET hist == handler[s].conversation_history
           n == Len(hist)
       IN  IF pc[s] = "gen"
           THEN /\ n >= 1
                /\ hist[n] = [role |-> "user", content |-> ev[s].heard]
           ELSE /\ n >= 2
                /\ hist[n - 1] = [role |-> "user", content |-> ev[s].heard]
                /\ hist[n] = [role |-> "assistant", content |-> ev[s].resp]

\* The same for finished turns only
C23_HistoryHoldsFinishedTurn ==
  \A s \in Conns :
    (ReachedGenerating(s) /\ ev[s].done)
    => LET hist == handler[s].conversation_history
           n == Len(hist)
       IN  /\ n >= 2
           /\ hist[n - 1] = [role |-> "user", content |-> ev[s].heard]
           /\ hist[n] = [role |-> "assistant", content |-> ev[s].resp]

\* Some entry of the transcript, of the user or of the assistant, holds the
\* text create_booking
MarkerInTranscript(s) ==
  \E k \in 1..Len(handler[s].transcript) :
    \E j \in 1..Len(handler[s].transcript[k].content) :
      Macro(handler[s].transcript[k].content[j]).create

\* C24: the persisted Interaction of a call has type "owner_test" when the
\* caller's number is the owner's; otherwise "booking" exactly when the
\* transcript contains the create-booking marker, and "inbound_call" in every
\* other case.
C24_InteractionType ==
  [] \A s \in Conns : \A i \in InteractionsOf(s) :
       IF handler[s].from_number = handler[s].owner.phone_number
       THEN interactions[i].type = "owner_test"
       ELSE /\ interactions[i].type \in {"booking", "inbound_call"}
            /\ interactions[i].type = "booking" <=> MarkerInTranscript(s)

\* A customer's call in which the assistant answered with a create_booking
\* directive was logged
C24_Witness ==
  \E s \in Conns : \E i \in InteractionsOf(s) :
    /\ ~handler[s].is_owner
    /\ MarkerInTranscript(s)
    /\ interactions[i].type = "booking"
    /\ interactions[i].caller_phone = handler[s].from_number

\* In the media event of the connection a Customer row was inserted and a
\* data-store call after it failed: the Booking insert of the same directive
BookingFailedAfterNewCustomer(s) ==
  /\ ev[s].kind = "media"
  /\ "db" \in ev[s].faults
  /\ Len(their_customers) > Len(snap[s].their_customers)

\* C25: if in create_booking the Booking insert fails after the Customer was
\* newly inserted, the Customer row stays in the data store (no row is ever
\* taken out again), no Booking is stored, no new-booking notification is
\* sent, and the turn goes on to synthesis and returns its audio.
C25_NoRollback ==
  /\ [] \A s \in Conns :
          BookingFailedAfterNewCustomer(s)
          => /\ Len(their_customers) = Len(snap[s].their_customers) + 1
             /\ their_customers[Len(their_customers)].business_owner_id
                  = handler[s].owner.id
             /\ their_customers[Len(their_customers)].total_calls = 0
             /\ bookings = snap[s].bookings
             /\ ev[s].sms = 0
             /\ pc[s] \in {"tts", "active", "closed"}
             /\ (pc[s] = "closed" => "send" \in ev[s].faults)
             /\ (ev[s].done /\ ev[s].faults = {"db"}
                   => /\ ev[s].tts = 1 /\ ev[s].sent = 1
                      /\ ev[s].returned = "audio"
                      /\ pc[s] = "active")
  /\ [][\A i \in 1..Len(their_customers) :
          /\ i <= Len(their_customers')
          /\ their_customers'[i].phone_number = their_customers[i].phone_number
          /\ their_customers'[i].business_owner_id
               = their_customers[i].business_owner_id]_vars

C25_Witness ==
  \E s \in Conns :
    /\ BookingFailedAfterNewCustomer(s)
    /\ ev[s].done /\ ev[s].faults = {"db"}
    /\ ev[s].returned = "audio"
    /\ bookings = snap[s].bookings
    /\ their_customers[Len(their_customers)].phone_number = handler[s].from_number

\* The step writes a call counter: it changes the total_calls of a Customer
\* row, or inserts a Customer row that counts a call
CountsACall ==
  \E i \in 1..Len(their_customers') :
    IF i <= Len(their_customers)
    THEN their_customers'[i].total_calls /= their_customers[i].total_calls
    ELSE their_customers'[i].total_calls > 0

\* The stop branch of the loop is entered for the connection
StopReceived(s) == ev'[s].kind = "stop" /\ ev[s].kind /= "stop"

\* The steps of save_call_log, in their order
InFinalization(s) == pc[s] \in {"fin_cust", "fin_log"}

\* C26: finalization runs exactly when a stop event is received on a
\* connection that has a session, and at most once per connection; for a
\* connection whose last event is not a stop event (receive returned nothing,
\* or an exception left the loop) no Interaction is persisted, no call counter
\* is written and no urgent notification is sent.
C26_FinalizationOnlyOnStop ==
  /\ [] \A s \in Conns :
          /\ ev[s].kind /= "stop"
               => /\ ~InFinalization(s)
                  /\ InteractionsOf(s) = {}
                  /\ UrgentBy(s) = {}
          /\ Cardinality(InteractionsOf(s)) <= 1
          /\ Cardinality(UrgentBy(s)) <= 1
  /\ [][/\ \A s \in Conns :
             /\ StopReceived(s)
                  => IF handler[s].exists /\ handler[s].owner /= NoOwner
                        /\ "db" \notin ev'[s].faults
                     THEN pc'[s] = "fin_cust"
                     ELSE pc'[s] = "closed"
             /\ pc'[s] = "fin_cust" /\ pc[s] /= "fin_cust"
                  => StopReceived(s) /\ handler[s].exists
             /\ pc'[s] = "fin_log" /\ pc[s] /= "fin_log" => pc[s] = "fin_cust"
             /\ pc[s] = "closed" => pc'[s] = "closed"
        /\ CountsACall
             => \E s \in Conns :
                  /\ pc[s] = "fin_cust" /\ pc'[s] = "fin_log"
                  /\ ev[s].kind = "stop"]_vars

\* A customer's call with an emergency in its transcript ended without a
\* stop event: nothing of it was logged
C26_Witness ==
  \E s \in Conns :
    /\ pc[s] = "closed"
    /\ ev[s].kind = "disconnect"
    /\ handler[s].owner /= NoOwner
    /\ ~handler[s].is_owner
    /\ IsEmergency(FullTranscript(handler[s].transcript))
    /\ interactions = <<>>
    /\ outbox = <<>>
    /\ \A i \in 1..Len(their_customers) : their_customers[i].total_calls = 0

\* C27: in a session whose caller is not the owner no Booking's booking_time
\* is ever changed, whatever the AI response contains: the Bookings that were
\* there when the media event arrived keep their booking_time.
C27_EditOnlyInManagerMode ==
  \A s \in Conns :
    (handler[s].exists /\ ~handler[s].is_owner /\ ev[s].kind = "media")
    => \A i \in 1..Len(snap[s].bookings) :
         bookings[i].booking_time = snap[s].bookings[i].booking_time

\* The session of the connection was started for a number of no active
\* business
NoBusiness(s) == handler[s].exists /\ handler[s].owner = NoOwner

\* C28: a session whose callee number resolved to no active business never
\* inserts or updates a data-store row and never sends a notification: every
\* step of its connection, for a start, media or stop event and any AI
\* response, leaves the tables and the outbox as they were.
C28_NoBusinessNoWrites ==
  /\ [] \A s \in Conns :
          NoBusiness(s)
          => /\ InteractionsOf(s) = {}
             /\ \A i \in 1..Len(outbox) : outbox[i].by /= s
             /\ ev[s].sms = 0
  /\ [][\A s \in Conns :
          (Steps(s) /\ (NoBusiness(s) \/ NoBusiness(s)'))
          => UNCHANGED <<their_customers, bookings, interactions, outbox>>]_vars

\* A call to a number of no active business went through a turn and a stop
\* event
C28_Witness ==
  \E s \in Conns :
    /\ NoBusiness(s)
    /\ ev[s].kind = "stop" /\ ev[s].done
    /\ Len(handler[s].transcript) >= 2
    /\ handler[s].transcript[2].content = Apology
    /\ Len(bookings) > 0

\* The Bookings that are not what they were when the event of the connection
\* arrived
ChangedBookings(s) ==
  { i \in 1..Len(snap[s].bookings) : bookings[i] /= snap[s].bookings[i] }

\* C29: one edit_booking directive changes the booking_time of at most one
\* Booking row, also when several pending Bookings of the business have the
\* directive's customer_name and old_time; every other row, and every other
\* field of the changed row, stays as it was.
C29_EditChangesOneRow ==
  /\ [] \A s \in Conns :
          ev[s].kind = "media"
          => /\ Cardinality(ChangedBookings(s)) <= 1
             /\ \A i \in ChangedBookings(s) :
                  /\ ContainsDirective(ev[s].resp, "edit_booking")
                  /\ [bookings[i] EXCEPT !.booking_time = "T1"]
                       = [snap[s].bookings[i] EXCEPT !.booking_time = "T1"]
  /\ [][\A s \in Conns :
          (pc[s] = "act_upd" /\ pc'[s] /= "act_upd")
          => /\ Len(bookings') = Len(bookings)
             /\ Cardinality({ i \in 1..Len(bookings) :
                                bookings'[i] /= bookings[i] }) <= 1]_vars

\* Two pending Bookings had the name and the time of the directive; one was
\* moved, the other was left
C29_Witness ==
  \E s \in Conns :
    /\ ev[s].kind = "media" /\ ev[s].done
    /\ \E i, j \in 1..Len(snap[s].bookings) :
         /\ i /= j
         /\ snap[s].bookings[i] = snap[s].bookings[j]
         /\ snap[s].bookings[i].status = "pending"
         /\ bookings[i].booking_time /= snap[s].bookings[i].booking_time
         /\ bookings[j] = snap[s].bookings[j]

\* user, assistant, user, ... from the first entry on
Alternates(entries) ==
  \A i \in 1..Len(entries) :
    entries[i].role = IF i % 2 = 1 THEN "user" ELSE "assistant"

IsPrefix(a, b) == Len(a) <= Len(b) /\ SubSeq(b, 1, Len(a)) = a

=============================================================================
